---------------------------- MODULE Spec2Model ----------------------------
(***************************************************************************)
(* Nanomatch-HFT: a single-symbol limit-order matching engine.             *)
(*                                                                         *)
(* The repository ships two engines:                                       *)
(*   - the bitset-indexed engine of hft_engine.cpp (variables hft, pc,     *)
(*     inbound), whose top of book is a two-level bitset;                  *)
(*   - the linear-scan engine of MatchingEngine.h / OrderBook.h / Types.h  *)
(*     (variables lin, lin_pc, lin_inbound), whose top of book is a pair   *)
(*     of cached ticks refreshed by a scan.                                *)
(*                                                                         *)
(* A processNewOrder call is modelled by its steps: the allocation, one    *)
(* step per iteration of the matching loop, and the final rest-or-free.    *)
(* No other call can start while one is in progress (the engine is         *)
(* single threaded), so the steps of a call are consecutive.               *)
(*                                                                         *)
(* The price index of the first (class FastPriceTracker) is also driven on *)
(* its own (variable tracker).                                             *)
(*                                                                         *)
(* Sizes are scaled down: a machine word has WORD_BITS bits instead of 64, *)
(* the arena has MAX_ORDERS slots instead of 1,000,000.                    *)
(***************************************************************************)
EXTENDS Integers, Sequences, FiniteSets

VARIABLES
    hft,          \* the MatchingEngine object of hft_engine.cpp
    pc,           \* position of the caller inside processNewOrder
    inbound,      \* the local `Order* inbound` of processNewOrder
    obs,          \* history of the calls (what a trade sink and a test would record)
    lin,          \* the MatchingEngine object of MatchingEngine.h
    lin_pc,       \* position inside the linear-scan processNewOrder
    lin_inbound,  \* its local `Order* inbound`
    lin_obs,      \* history of the linear-scan engine's calls
    tracker,      \* a FastPriceTracker object driven on its own
    tracker_obs   \* history of the calls made on it

vars == <<hft, pc, inbound, obs, lin, lin_pc, lin_inbound, lin_obs,
          tracker, tracker_obs>>
hftVars == <<hft, pc, inbound, obs>>
linVars == <<lin, lin_pc, lin_inbound, lin_obs>>
trackerVars == <<tracker, tracker_obs>>

---------------------------------------------------------------------------
(* Sizes *)

\* bits of one index word (uint64_t in the source: 64)
WORD_BITS == 2
\* slots of the arena (1,000,000 in the source)
MAX_ORDERS == 3
\* hft_engine.cpp: "64 blocks of 64 bits"
MAX_PRICE_TICKS == WORD_BITS * WORD_BITS
\* Types.h: the tick domain of the linear-scan engine (10000 in the source,
\* larger than the bitset engine's)
lin_MAX_PRICE_TICKS == MAX_PRICE_TICKS + 1

\* largest quantity of an inbound order
MaxQty == 2
\* number of processNewOrder calls in a run
MaxCalls == 4

Slots == 0 .. MAX_ORDERS - 1
Ticks == 0 .. MAX_PRICE_TICKS - 1
lin_Ticks == 0 .. lin_MAX_PRICE_TICKS - 1
Words == 0 .. WORD_BITS - 1
\* nullptr
Null == -1

min(a, b) == IF a < b THEN a ELSE b

---------------------------------------------------------------------------
(* 64-bit word operations, on words of WORD_BITS bits *)

TestBit(w, b) == (w \div (2 ^ b)) % 2 = 1
\* w | (1ULL << b)
OrBit(w, b) == IF TestBit(w, b) THEN w ELSE w + 2 ^ b
\* w & ~(1ULL << b)
AndNotBit(w, b) == IF TestBit(w, b) THEN w - 2 ^ b ELSE w
\* __builtin_ctzll: index of the lowest set bit; undefined for 0, as the builtin is
ctzll(w) ==
    CHOOSE i \in Words : TestBit(w, i) /\ \A j \in Words : j < i => ~TestBit(w, j)
\* __builtin_clzll: number of zero bits above the highest set bit; undefined for 0
clzll(w) ==
    (WORD_BITS - 1)
      - (CHOOSE i \in Words : TestBit(w, i) /\ \A j \in Words : j > i => ~TestBit(w, j))

---------------------------------------------------------------------------
(* OrderPool (hft_engine.cpp 22-48, Types.h 23-53: the same code) *)

\* struct Order; the fields are written by allocate before they are read
Order(id, price, qty, is_buy) ==
    [id |-> id, price |-> price, qty |-> qty, is_buy |-> is_buy,
     prev |-> Null, next |-> Null]

\* OrderPool(): every slot free, free_list_[i] = MAX_ORDERS - 1 - i
OrderPool ==
    [pool_      |-> [s \in Slots |-> Order(0, 0, 0, FALSE)],
     free_list_ |-> [i \in Slots |-> MAX_ORDERS - 1 - i],
     free_idx_  |-> MAX_ORDERS]

\* Fault for C6_ExhaustionRejects: an allocate that writes the record of the
\* slot on top of the stack before it tests for exhaustion
allocate_writesFirst(p, id, price, qty, is_buy) ==
    LET top == IF p.free_idx_ = 0 THEN 0 ELSE p.free_idx_ - 1
        idx == p.free_list_[top]
        p1  == [p EXCEPT !.pool_[idx] = Order(id, price, qty, is_buy)]
    IN  IF p.free_idx_ = 0 THEN [threw |-> TRUE, order |-> Null, pool |-> p1]
        ELSE [threw |-> FALSE, order |-> idx,
              pool |-> [p1 EXCEPT !.free_idx_ = @ - 1]]

\* allocate: whether it threw, the slot handed out and the pool afterwards
allocate(p, id, price, qty, is_buy) ==
    IF p.free_idx_ = 0 THEN [threw |-> TRUE, order |-> Null, pool |-> p]
    ELSE LET idx == p.free_list_[p.free_idx_ - 1]
         IN  [threw |-> FALSE,
              order |-> idx,
              pool  |-> [p EXCEPT !.free_idx_ = @ - 1,
                                  !.pool_[idx] = Order(id, price, qty, is_buy)]]

\* Fault for C5_ArenaIntegrity: a deallocate that forgets `free_idx_++`
deallocate_noPush(p, order) ==
    [p EXCEPT !.free_list_[p.free_idx_] = order]

deallocate(p, order) ==
    [p EXCEPT !.free_list_[p.free_idx_] = order, !.free_idx_ = @ + 1]

---------------------------------------------------------------------------
(* FastPriceTracker (hft_engine.cpp 51-86) *)

FastPriceTracker ==
    [summary_word_ |-> 0, data_words_ |-> [w \in Words |-> 0]]

\* Fault for C14_Idempotence: a setPriceLevel that adds the masks (`+=`)
\* instead of or-ing them
setPriceLevel_adds(t, price) ==
    LET word_idx == price \div WORD_BITS
        bit_idx  == price % WORD_BITS
    IN  [summary_word_ |-> t.summary_word_ + 2 ^ word_idx,
         data_words_   |-> [t.data_words_ EXCEPT ![word_idx] = @ + 2 ^ bit_idx]]

setPriceLevel(t, price) ==
    LET word_idx == price \div WORD_BITS
        bit_idx  == price % WORD_BITS
    IN  [summary_word_ |-> OrBit(t.summary_word_, word_idx),
         data_words_   |-> [t.data_words_ EXCEPT ![word_idx] = OrBit(@, bit_idx)]]

\* Fault for C17_SummaryInvariant: a clearPriceLevel that never clears the
\* summary bit
clearPriceLevel_keepsSummary(t, price) ==
    LET word_idx == price \div WORD_BITS
        bit_idx  == price % WORD_BITS
    IN  [summary_word_ |-> t.summary_word_,
         data_words_   |-> [t.data_words_ EXCEPT ![word_idx] = AndNotBit(@, bit_idx)]]

\* Fault for C4_IndexConsistency: a clearPriceLevel that swaps / and %
clearPriceLevel_swapped(t, price) ==
    LET word_idx == price % WORD_BITS
        bit_idx  == price \div WORD_BITS
        data     == [t.data_words_ EXCEPT ![word_idx] = AndNotBit(@, bit_idx)]
    IN  [summary_word_ |-> IF data[word_idx] = 0
                             THEN AndNotBit(t.summary_word_, word_idx)
                             ELSE t.summary_word_,
         data_words_   |-> data]

clearPriceLevel(t, price) ==
    LET word_idx == price \div WORD_BITS
        bit_idx  == price % WORD_BITS
        data     == [t.data_words_ EXCEPT ![word_idx] = AndNotBit(@, bit_idx)]
    IN  [summary_word_ |-> IF data[word_idx] = 0
                             THEN AndNotBit(t.summary_word_, word_idx)
                             ELSE t.summary_word_,
         data_words_   |-> data]

getBestAsk(t) ==
    IF t.summary_word_ = 0 THEN MAX_PRICE_TICKS
    ELSE LET lowest_word == ctzll(t.summary_word_)
             lowest_bit  == ctzll(t.data_words_[lowest_word])
         IN  lowest_word * WORD_BITS + lowest_bit

\* Fault for C18_BestPrice: a getBestBid that scans the highest word from its
\* low end
getBestBid_lowBit(t) ==
    IF t.summary_word_ = 0 THEN 0
    ELSE LET highest_word == (WORD_BITS - 1) - clzll(t.summary_word_)
             highest_bit  == ctzll(t.data_words_[highest_word])
         IN  highest_word * WORD_BITS + highest_bit

getBestBid(t) ==
    IF t.summary_word_ = 0 THEN 0
    ELSE LET highest_word == (WORD_BITS - 1) - clzll(t.summary_word_)
             highest_bit  == (WORD_BITS - 1) - clzll(t.data_words_[highest_word])
         IN  highest_word * WORD_BITS + highest_bit

---------------------------------------------------------------------------
(* PriceLevel (hft_engine.cpp 89-108).  A level is [head, tail]; the links *)
(* live in the Order records, so the operations take and return the        *)
(* arena's records (mem) with the level.                                   *)

PriceLevel == [head |-> Null, tail |-> Null]

isEmpty(level) == level.head = Null

\* Fault for C3_TimePriority: a push_back that links the order before the head
push_back_atHead(level, mem, order) ==
    IF level.head = Null
    THEN [level |-> [head |-> order, tail |-> order], mem |-> mem]
    ELSE [level |-> [level EXCEPT !.head = order],
          mem   |-> [mem EXCEPT ![level.head].prev = order,
                                ![order].next = level.head]]

\* Fault for C16_QueueWellFormed: a push_back that forgets `order->prev = tail`
push_back_noPrev(level, mem, order) ==
    IF level.head = Null
    THEN [level |-> [head |-> order, tail |-> order], mem |-> mem]
    ELSE [level |-> [level EXCEPT !.tail = order],
          mem   |-> [mem EXCEPT ![level.tail].next = order]]

push_back(level, mem, order) ==
    IF level.head = Null
    THEN [level |-> [head |-> order, tail |-> order], mem |-> mem]
    ELSE [level |-> [level EXCEPT !.tail = order],
          mem   |-> [mem EXCEPT ![level.tail].next = order,
                                ![order].prev = level.tail]]

\* Fault for C13_HandleStability: a pop_front that unlinks the whole queue
pop_front_dropsAll(level, mem) ==
    [level |-> [head |-> Null, tail |-> Null], mem |-> mem]

\* the new level and records; the caller already holds the popped head
pop_front(level, mem) ==
    IF level.head = Null THEN [level |-> level, mem |-> mem]
    ELSE LET h == mem[level.head].next
         IN  IF h # Null
             THEN [level |-> [level EXCEPT !.head = h],
                   mem   |-> [mem EXCEPT ![h].prev = Null]]
             ELSE [level |-> [head |-> Null, tail |-> Null], mem |-> mem]

---------------------------------------------------------------------------
(* OrderBook and MatchingEngine (hft_engine.cpp 110-188) *)

OrderBook ==
    [bids_        |-> [t \in Ticks |-> PriceLevel],
     asks_        |-> [t \in Ticks |-> PriceLevel],
     bid_tracker_ |-> FastPriceTracker,
     ask_tracker_ |-> FastPriceTracker]

MatchingEngine ==
    [book_ |-> OrderBook, pool_ |-> OrderPool, trades_executed_ |-> 0]

\* OrderBook::addOrder, for an order whose price is a tick of the book
addOrder(e, order) ==
    LET o == e.pool_.pool_[order]
    IN  IF o.is_buy
        THEN LET r == push_back(e.book_.bids_[o.price], e.pool_.pool_, order)
             IN  [e EXCEPT !.book_.bid_tracker_ =
                               IF isEmpty(e.book_.bids_[o.price])
                               THEN setPriceLevel(@, o.price) ELSE @,
                           !.book_.bids_[o.price] = r.level,
                           !.pool_.pool_ = r.mem]
        ELSE LET r == push_back(e.book_.asks_[o.price], e.pool_.pool_, order)
             IN  [e EXCEPT !.book_.ask_tracker_ =
                               IF isEmpty(e.book_.asks_[o.price])
                               THEN setPriceLevel(@, o.price) ELSE @,
                           !.book_.asks_[o.price] = r.level,
                           !.pool_.pool_ = r.mem]

\* Fault for C11_Termination: a trade of nothing, which neither fills the
\* inbound nor removes the resting order
tradedQty_none(e, inb, resting) == 0

\* executeTrade line 174
tradedQty(e, inb, resting) ==
    min(e.pool_.pool_[inb].qty, e.pool_.pool_[resting].qty)

\* Fault for C1_Conservation: an executeTrade that forgets
\* `resting->qty -= traded_qty`
executeTrade_keepsResting(e, inb, resting, fill_price, is_bid_book) ==
    [e EXCEPT !.pool_.pool_[inb].qty = @ - tradedQty(e, inb, resting),
              !.trades_executed_ = @ + 1]

\* Fault for C15_TradeCounter: an executeTrade that forgets `trades_executed_++`
executeTrade_uncounted(e, inb, resting, fill_price, is_bid_book) ==
    LET traded_qty == min(e.pool_.pool_[inb].qty, e.pool_.pool_[resting].qty)
        e1 == [e EXCEPT !.pool_.pool_[inb].qty = @ - traded_qty,
                        !.pool_.pool_[resting].qty = @ - traded_qty]
    IN  IF e1.pool_.pool_[resting].qty # 0 THEN e1
        ELSE LET level == IF is_bid_book THEN e1.book_.bids_[fill_price]
                                         ELSE e1.book_.asks_[fill_price]
                 r  == pop_front(level, e1.pool_.pool_)
                 e2 == IF is_bid_book
                       THEN [e1 EXCEPT !.book_.bids_[fill_price] = r.level,
                                       !.pool_.pool_ = r.mem,
                                       !.book_.bid_tracker_ =
                                           IF isEmpty(r.level)
                                           THEN clearPriceLevel(@, fill_price) ELSE @]
                       ELSE [e1 EXCEPT !.book_.asks_[fill_price] = r.level,
                                       !.pool_.pool_ = r.mem,
                                       !.book_.ask_tracker_ =
                                           IF isEmpty(r.level)
                                           THEN clearPriceLevel(@, fill_price) ELSE @]
             IN  [e2 EXCEPT !.pool_ = deallocate(@, resting)]

\* MatchingEngine::executeTrade; `level` is bids_[fill_price] when is_bid_book,
\* asks_[fill_price] otherwise
executeTrade(e, inb, resting, fill_price, is_bid_book) ==
    LET traded_qty == tradedQty(e, inb, resting)
        e1 == [e EXCEPT !.pool_.pool_[inb].qty = @ - traded_qty,
                        !.pool_.pool_[resting].qty = @ - traded_qty,
                        !.trades_executed_ = @ + 1]
    IN  IF e1.pool_.pool_[resting].qty # 0 THEN e1
        ELSE LET level == IF is_bid_book THEN e1.book_.bids_[fill_price]
                                         ELSE e1.book_.asks_[fill_price]
                 r  == pop_front(level, e1.pool_.pool_)
                 e2 == IF is_bid_book
                       THEN [e1 EXCEPT !.book_.bids_[fill_price] = r.level,
                                       !.pool_.pool_ = r.mem,
                                       !.book_.bid_tracker_ =
                                           IF isEmpty(r.level)
                                           THEN clearPriceLevel(@, fill_price) ELSE @]
                       ELSE [e1 EXCEPT !.book_.asks_[fill_price] = r.level,
                                       !.pool_.pool_ = r.mem,
                                       !.book_.ask_tracker_ =
                                           IF isEmpty(r.level)
                                           THEN clearPriceLevel(@, fill_price) ELSE @]
             IN  [e2 EXCEPT !.pool_ = deallocate(@, resting)]

\* Fault for C8_BuySweep: a break test that stops at an ask equal to the limit
buyBreaks_atLimit(best_ask, price) == best_ask >= price \/ best_ask = MAX_PRICE_TICKS

\* the `break` test of matchBuyOrder's loop body
buyBreaks(best_ask, price) == best_ask > price \/ best_ask = MAX_PRICE_TICKS
\* Fault for C20_EnginesAgree: a break test that stops at a bid equal to the limit
sellBreaks_atLimit(best_bid, price) == best_bid <= price \/ best_bid = 0

\* the `break` test of matchSellOrder's loop body
sellBreaks(best_bid, price) == best_bid < price \/ best_bid = 0


---------------------------------------------------------------------------
(* The linear-scan engine: PriceLevel and OrderBook of OrderBook.h,        *)
(* MatchingEngine of MatchingEngine.h, OrderPool of Types.h (the same code *)
(* as hft_engine.cpp's, so OrderPool, allocate and deallocate above).      *)

\* PriceLevel::addOrder (OrderBook.h 17-26)
lin_PriceLevel_addOrder(level, mem, order) ==
    LET mem1 == [mem EXCEPT ![order].prev = level.tail, ![order].next = Null]
    IN  IF level.tail # Null
        THEN [level |-> [level EXCEPT !.tail = order],
              mem   |-> [mem1 EXCEPT ![level.tail].next = order]]
        ELSE [level |-> [head |-> order, tail |-> order], mem |-> mem1]

\* PriceLevel::pop_front (OrderBook.h 28-39)
lin_pop_front(level, mem) ==
    IF level.head = Null THEN [level |-> level, mem |-> mem]
    ELSE LET old_head == level.head
             h == mem[old_head].next
             mem1 == IF h # Null THEN [mem EXCEPT ![h].prev = Null] ELSE mem
         IN  [level |-> IF h # Null THEN [level EXCEPT !.head = h]
                        ELSE [head |-> Null, tail |-> Null],
              mem   |-> [mem1 EXCEPT ![old_head].next = Null,
                                     ![old_head].prev = Null]]

\* OrderBook (OrderBook.h 94-99)
lin_OrderBook ==
    [asks_     |-> [t \in lin_Ticks |-> PriceLevel],
     bids_     |-> [t \in lin_Ticks |-> PriceLevel],
     best_ask_ |-> lin_MAX_PRICE_TICKS,
     best_bid_ |-> 0]

lin_MatchingEngine ==
    [book_ |-> lin_OrderBook, pool_ |-> OrderPool, trades_executed_ |-> 0]

\* OrderBook::addOrder (OrderBook.h 102-114), for a price that is a tick
lin_addOrder(e, order) ==
    LET o == e.pool_.pool_[order]
    IN  IF o.is_buy
        THEN LET r == lin_PriceLevel_addOrder(e.book_.bids_[o.price],
                                              e.pool_.pool_, order)
             IN  [e EXCEPT !.book_.bids_[o.price] = r.level,
                           !.pool_.pool_ = r.mem,
                           !.book_.best_bid_ = IF o.price > @ THEN o.price ELSE @]
        ELSE LET r == lin_PriceLevel_addOrder(e.book_.asks_[o.price],
                                              e.pool_.pool_, order)
             IN  [e EXCEPT !.book_.asks_[o.price] = r.level,
                           !.pool_.pool_ = r.mem,
                           !.book_.best_ask_ = IF o.price < @ THEN o.price ELSE @]

\* OrderBook::updateBestAsk (OrderBook.h 116-124): the new best_ask_
lin_updateBestAsk(b) ==
    IF \E i \in lin_Ticks : b.asks_[i].head # Null
    THEN CHOOSE i \in lin_Ticks :
            /\ b.asks_[i].head # Null
            /\ \A j \in lin_Ticks : j < i => b.asks_[j].head = Null
    ELSE lin_MAX_PRICE_TICKS

\* Fault for C19_CachedTopOfBook: an updateBestBid that resets best_bid_
\* without scanning
lin_updateBestBid_noScan(b) == 0

\* OrderBook::updateBestBid (OrderBook.h 126-134): the new best_bid_
lin_updateBestBid(b) ==
    IF \E i \in lin_Ticks : b.bids_[i].head # Null
    THEN CHOOSE i \in lin_Ticks :
            /\ b.bids_[i].head # Null
            /\ \A j \in lin_Ticks : j > i => b.bids_[j].head = Null
    ELSE 0

\* MatchingEngine::executeTrade (MatchingEngine.h 60-79); `level` is
\* bids_[fill_price] when the caller is matchSellOrder (is_bid_book),
\* asks_[fill_price] when it is matchBuyOrder
lin_executeTrade(e, inb, resting, fill_price, is_bid_book) ==
    LET traded_qty == tradedQty(e, inb, resting)
        e1 == [e EXCEPT !.pool_.pool_[inb].qty = @ - traded_qty,
                        !.pool_.pool_[resting].qty = @ - traded_qty,
                        !.trades_executed_ = @ + 1]
    IN  IF e1.pool_.pool_[resting].qty # 0 THEN e1
        ELSE LET level == IF is_bid_book THEN e1.book_.bids_[fill_price]
                                         ELSE e1.book_.asks_[fill_price]
                 r  == lin_pop_front(level, e1.pool_.pool_)
                 e2 == IF is_bid_book
                       THEN [e1 EXCEPT !.book_.bids_[fill_price] = r.level,
                                       !.pool_.pool_ = r.mem]
                       ELSE [e1 EXCEPT !.book_.asks_[fill_price] = r.level,
                                       !.pool_.pool_ = r.mem]
                 e3 == IF r.level.head # Null THEN e2
                       ELSE IF fill_price = e2.book_.best_ask_
                       THEN [e2 EXCEPT !.book_.best_ask_ = lin_updateBestAsk(e2.book_)]
                       ELSE IF fill_price = e2.book_.best_bid_
                       THEN [e2 EXCEPT !.book_.best_bid_ = lin_updateBestBid(e2.book_)]
                       ELSE e2
             IN  [e3 EXCEPT !.pool_ = deallocate(@, resting)]

\* the condition of the while of matchBuyOrder (MatchingEngine.h 33)
lin_buyContinues(e, inb) ==
    e.pool_.pool_[inb].qty > 0 /\ e.book_.best_ask_ <= e.pool_.pool_[inb].price
\* the condition of the while of matchSellOrder (MatchingEngine.h 47)
lin_sellContinues(e, inb) ==
    e.pool_.pool_[inb].qty > 0 /\ e.book_.best_bid_ >= e.pool_.pool_[inb].price

\* the body of the while of matchBuyOrder (MatchingEngine.h 34-42)
lin_buyIteration(e, inb) ==
    LET resting == e.book_.asks_[e.book_.best_ask_].head
    IN  IF resting = Null
        THEN [e EXCEPT !.book_.best_ask_ = lin_updateBestAsk(e.book_)]
        ELSE lin_executeTrade(e, inb, resting, e.book_.best_ask_, FALSE)

\* the body of the while of matchSellOrder (MatchingEngine.h 48-56)
lin_sellIteration(e, inb) ==
    LET resting == e.book_.bids_[e.book_.best_bid_].head
    IN  IF resting = Null
        THEN [e EXCEPT !.book_.best_bid_ = lin_updateBestBid(e.book_)]
        ELSE lin_executeTrade(e, inb, resting, e.book_.best_bid_, TRUE)

---------------------------------------------------------------------------
(* What an observer of the calls records.  None of it is read by the      *)
(* engine.                                                                 *)
(*   calls      processNewOrder calls made so far                          *)
(*   id .. is_buy   the arguments of the current (or last) call            *)
(*   result     "none", "running", "done", "exhausted" (allocate threw),   *)
(*              "undefined" (the call indexed a book array out of range)   *)
(*   pre        the engine as it was when the call was made                *)
(*   slot       the handle allocate returned to the call                   *)
(*   fills      the trades of the call, in order                           *)
(*   iters      iterations of the matching loop that executed a trade      *)
(*   sumIn      total quantity of the orders accepted so far               *)
(*   sumFilled  total traded quantity so far                               *)
(*   rested     per slot: the number of the call that put it in the book,  *)
(*              0 when the slot is not resting                             *)

Observer(e) ==
    [calls |-> 0, id |-> 0, price |-> 0, qty |-> 0, is_buy |-> FALSE,
     result |-> "none", pre |-> e, slot |-> Null, fills |-> <<>>, iters |-> 0,
     sumIn |-> 0, sumFilled |-> 0, rested |-> [s \in Slots |-> 0]]

\* the observer at the start of a call
Called(o, e, price, qty, is_buy, slot, result) ==
    [o EXCEPT !.calls = @ + 1, !.id = o.calls, !.price = price, !.qty = qty,
              !.is_buy = is_buy, !.result = result, !.pre = e, !.slot = slot,
              !.fills = <<>>, !.iters = 0]

\* the observer after a trade that took e to e2
Traded(o, e, e2, inb, resting, fill_price) ==
    LET q == tradedQty(e, inb, resting)
    IN  [o EXCEPT !.fills = Append(@, [slot |-> resting,
                                       id |-> e.pool_.pool_[resting].id,
                                       price |-> fill_price, qty |-> q]),
                  !.iters = @ + 1,
                  !.sumFilled = @ + q,
                  !.rested[resting] =
                      IF e2.pool_.pool_[resting].qty = 0 THEN 0 ELSE @]

---------------------------------------------------------------------------
(* The bitset-indexed engine: processNewOrder (hft_engine.cpp 136-144)     *)

\* line 137, allocate succeeds
ProcessNewOrder(price, qty, is_buy) ==
    /\ pc = "idle"
    /\ obs.calls < MaxCalls
    /\ LET a == allocate(hft.pool_, obs.calls, price, qty, is_buy)
       IN  /\ ~a.threw
           /\ hft' = [hft EXCEPT !.pool_ = a.pool]
           /\ inbound' = a.order
           /\ obs' = [Called(obs, hft, price, qty, is_buy, a.order, "running")
                         EXCEPT !.sumIn = @ + qty]
    /\ pc' = "match"
    /\ UNCHANGED <<linVars, trackerVars>>

\* line 137, allocate throws: the exception leaves processNewOrder
ProcessNewOrderThrows(price, qty, is_buy) ==
    /\ pc = "idle"
    /\ obs.calls < MaxCalls
    /\ LET a == allocate(hft.pool_, obs.calls, price, qty, is_buy)
       IN  /\ a.threw
           /\ hft' = [hft EXCEPT !.pool_ = a.pool]
           /\ obs' = Called(obs, hft, price, qty, is_buy, Null, "exhausted")
    /\ UNCHANGED <<pc, inbound>>
    /\ UNCHANGED <<linVars, trackerVars>>

\* lines 149-159: one evaluation of the loop of matchBuyOrder
matchBuyOrder ==
    /\ pc = "match"
    /\ hft.pool_.pool_[inbound].is_buy
    /\ LET o == hft.pool_.pool_[inbound]
           best_ask == getBestAsk(hft.book_.ask_tracker_)
       IN  IF o.qty > 0 /\ ~buyBreaks(best_ask, o.price)
           THEN LET resting == hft.book_.asks_[best_ask].head
                    e2 == executeTrade(hft, inbound, resting, best_ask, FALSE)
                IN  /\ hft' = e2
                    /\ obs' = Traded(obs, hft, e2, inbound, resting, best_ask)
                    /\ pc' = "match"
           ELSE /\ pc' = "rest"
                /\ UNCHANGED <<hft, obs>>
    /\ UNCHANGED inbound
    /\ UNCHANGED <<linVars, trackerVars>>

\* lines 161-171: one evaluation of the loop of matchSellOrder
matchSellOrder ==
    /\ pc = "match"
    /\ ~hft.pool_.pool_[inbound].is_buy
    /\ LET o == hft.pool_.pool_[inbound]
           best_bid == getBestBid(hft.book_.bid_tracker_)
       IN  IF o.qty > 0 /\ ~sellBreaks(best_bid, o.price)
           THEN LET resting == hft.book_.bids_[best_bid].head
                    e2 == executeTrade(hft, inbound, resting, best_bid, TRUE)
                IN  /\ hft' = e2
                    /\ obs' = Traded(obs, hft, e2, inbound, resting, best_bid)
                    /\ pc' = "match"
           ELSE /\ pc' = "rest"
                /\ UNCHANGED <<hft, obs>>
    /\ UNCHANGED inbound
    /\ UNCHANGED <<linVars, trackerVars>>

\* lines 142-143, when the residual rests at a tick of the book or is freed
RestOrFree ==
    /\ pc = "rest"
    /\ LET o == hft.pool_.pool_[inbound]
       IN  /\ o.qty > 0 => o.price \in Ticks
           /\ hft' = IF o.qty > 0 THEN addOrder(hft, inbound)
                      ELSE [hft EXCEPT !.pool_ = deallocate(@, inbound)]
           /\ obs' = [obs EXCEPT !.result = "done",
                                 !.rested[inbound] =
                                     IF o.qty > 0 THEN obs.calls ELSE @]
    /\ pc' = "idle"
    /\ inbound' = Null
    /\ UNCHANGED <<linVars, trackerVars>>

\* line 142 with inbound->price >= MAX_PRICE_TICKS: addOrder indexes bids_ or
\* asks_ past its end, which is undefined.  The outcomes kept here: the access
\* lands outside the engine's objects (nothing modelled changes), or it lands
\* on one of the book's levels (bids_ and asks_ are adjacent members) and the
\* order is linked there.  Nothing is said about the engine afterwards.
RestOutOfRange ==
    /\ pc = "rest"
    /\ LET o == hft.pool_.pool_[inbound]
       IN  /\ o.qty > 0
           /\ o.price \notin Ticks
           /\ \/ hft' = hft
              \/ \E t \in Ticks :
                    LET r == push_back(hft.book_.bids_[t], hft.pool_.pool_, inbound)
                    IN  hft' = [hft EXCEPT !.book_.bids_[t] = r.level,
                                           !.pool_.pool_ = r.mem]
              \/ \E t \in Ticks :
                    LET r == push_back(hft.book_.asks_[t], hft.pool_.pool_, inbound)
                    IN  hft' = [hft EXCEPT !.book_.asks_[t] = r.level,
                                           !.pool_.pool_ = r.mem]
    /\ obs' = [obs EXCEPT !.result = "undefined"]
    /\ pc' = "undefined"
    /\ inbound' = Null
    /\ UNCHANGED <<linVars, trackerVars>>

---------------------------------------------------------------------------
(* The linear-scan engine: processNewOrder (MatchingEngine.h 12-27) *)

\* line 13, allocate succeeds
lin_ProcessNewOrder(price, qty, is_buy) ==
    /\ lin_pc = "idle"
    /\ lin_obs.calls < MaxCalls
    /\ LET a == allocate(lin.pool_, lin_obs.calls, price, qty, is_buy)
       IN  /\ ~a.threw
           /\ lin' = [lin EXCEPT !.pool_ = a.pool]
           /\ lin_inbound' = a.order
           /\ lin_obs' = [Called(lin_obs, lin, price, qty, is_buy, a.order, "running")
                             EXCEPT !.sumIn = @ + qty]
    /\ lin_pc' = "match"
    /\ UNCHANGED <<hftVars, trackerVars>>

\* line 13, allocate throws
lin_ProcessNewOrderThrows(price, qty, is_buy) ==
    /\ lin_pc = "idle"
    /\ lin_obs.calls < MaxCalls
    /\ LET a == allocate(lin.pool_, lin_obs.calls, price, qty, is_buy)
       IN  /\ a.threw
           /\ lin' = [lin EXCEPT !.pool_ = a.pool]
           /\ lin_obs' = Called(lin_obs, lin, price, qty, is_buy, Null, "exhausted")
    /\ UNCHANGED <<lin_pc, lin_inbound>>
    /\ UNCHANGED <<hftVars, trackerVars>>

\* lines 32-44: one evaluation of the loop of matchBuyOrder
lin_matchBuyOrder ==
    /\ lin_pc = "match"
    /\ lin.pool_.pool_[lin_inbound].is_buy
    /\ IF lin_buyContinues(lin, lin_inbound)
       THEN LET resting == lin.book_.asks_[lin.book_.best_ask_].head
                e2 == lin_buyIteration(lin, lin_inbound)
            IN  /\ lin' = e2
                /\ lin_obs' = IF resting = Null THEN lin_obs
                              ELSE Traded(lin_obs, lin, e2, lin_inbound, resting,
                                          lin.book_.best_ask_)
                /\ lin_pc' = "match"
       ELSE /\ lin_pc' = "rest"
            /\ UNCHANGED <<lin, lin_obs>>
    /\ UNCHANGED lin_inbound
    /\ UNCHANGED <<hftVars, trackerVars>>

\* lines 46-58: one evaluation of the loop of matchSellOrder
lin_matchSellOrder ==
    /\ lin_pc = "match"
    /\ ~lin.pool_.pool_[lin_inbound].is_buy
    /\ IF lin_sellContinues(lin, lin_inbound)
       THEN LET resting == lin.book_.bids_[lin.book_.best_bid_].head
                e2 == lin_sellIteration(lin, lin_inbound)
            IN  /\ lin' = e2
                /\ lin_obs' = IF resting = Null THEN lin_obs
                              ELSE Traded(lin_obs, lin, e2, lin_inbound, resting,
                                          lin.book_.best_bid_)
                /\ lin_pc' = "match"
       ELSE /\ lin_pc' = "rest"
            /\ UNCHANGED <<lin, lin_obs>>
    /\ UNCHANGED lin_inbound
    /\ UNCHANGED <<hftVars, trackerVars>>

\* lines 22-26
lin_RestOrFree ==
    /\ lin_pc = "rest"
    /\ LET o == lin.pool_.pool_[lin_inbound]
       IN  /\ lin' = IF o.qty > 0 THEN lin_addOrder(lin, lin_inbound)
                      ELSE [lin EXCEPT !.pool_ = deallocate(@, lin_inbound)]
           /\ lin_obs' = [lin_obs EXCEPT !.result = "done",
                                         !.rested[lin_inbound] =
                                             IF o.qty > 0 THEN lin_obs.calls ELSE @]
    /\ lin_pc' = "idle"
    /\ lin_inbound' = Null
    /\ UNCHANGED <<hftVars, trackerVars>>

---------------------------------------------------------------------------
(* A FastPriceTracker driven on its own by setPriceLevel / clearPriceLevel *)
(* calls on ticks of [0, P), in any order.                                 *)
(*   op, price  the last call: "none", "set" or "clear", and its argument  *)
(*   pre        the tracker as it was when the call was made               *)
(*   active     the ticks set more recently than cleared                   *)

TrackerObserver ==
    [op |-> "none", price |-> 0, pre |-> FastPriceTracker, active |-> {}]

SetPriceLevel(price) ==
    /\ tracker' = setPriceLevel(tracker, price)
    /\ tracker_obs' = [op |-> "set", price |-> price, pre |-> tracker,
                       active |-> tracker_obs.active \cup {price}]
    /\ UNCHANGED <<hftVars, linVars>>

ClearPriceLevel(price) ==
    /\ tracker' = clearPriceLevel(tracker, price)
    /\ tracker_obs' = [op |-> "clear", price |-> price, pre |-> tracker,
                       active |-> tracker_obs.active \ {price}]
    /\ UNCHANGED <<hftVars, linVars>>

---------------------------------------------------------------------------
(* Specifications *)

Init ==
    /\ hft = MatchingEngine
    /\ pc = "idle"
    /\ inbound = Null
    /\ obs = Observer(MatchingEngine)
    /\ lin = lin_MatchingEngine
    /\ lin_pc = "idle"
    /\ lin_inbound = Null
    /\ lin_obs = Observer(lin_MatchingEngine)
    /\ tracker = FastPriceTracker
    /\ tracker_obs = TrackerObserver

\* the driver submits valid orders only: price in [0, P), qty > 0
Next ==
    \/ \E price \in Ticks, qty \in 1 .. MaxQty, is_buy \in BOOLEAN :
          ProcessNewOrder(price, qty, is_buy)
    \/ \E price \in Ticks, qty \in 1 .. MaxQty, is_buy \in BOOLEAN :
          ProcessNewOrderThrows(price, qty, is_buy)
    \/ matchBuyOrder
    \/ matchSellOrder
    \/ RestOrFree

Spec == Init /\ [][Next]_vars

\* the driver submits any order: qty may be 0, price may be MAX_PRICE_TICKS
NextAnyOrder ==
    \/ \E price \in 0 .. MAX_PRICE_TICKS, qty \in 0 .. MaxQty, is_buy \in BOOLEAN :
          ProcessNewOrder(price, qty, is_buy)
    \/ \E price \in 0 .. MAX_PRICE_TICKS, qty \in 0 .. MaxQty, is_buy \in BOOLEAN :
          ProcessNewOrderThrows(price, qty, is_buy)
    \/ matchBuyOrder
    \/ matchSellOrder
    \/ RestOrFree
    \/ RestOutOfRange

SpecAnyOrder == Init /\ [][NextAnyOrder]_vars

\* the linear-scan engine, driven with valid orders: price in
\* [0, MAX_PRICE_TICKS) of Types.h, qty > 0
lin_Next ==
    \/ \E price \in lin_Ticks, qty \in 1 .. MaxQty, is_buy \in BOOLEAN :
          lin_ProcessNewOrder(price, qty, is_buy)
    \/ \E price \in lin_Ticks, qty \in 1 .. MaxQty, is_buy \in BOOLEAN :
          lin_ProcessNewOrderThrows(price, qty, is_buy)
    \/ lin_matchBuyOrder
    \/ lin_matchSellOrder
    \/ lin_RestOrFree

SpecLin == Init /\ [][lin_Next]_vars

\* a program of the repository holds one engine: hft_engine.cpp's main the
\* bitset-indexed one, a program built on MatchingEngine.h the linear-scan one
NextEither ==
    \/ lin_obs.calls = 0 /\ Next
    \/ obs.calls = 0 /\ lin_Next

SpecEither == Init /\ [][NextEither]_vars

\* the two engines side by side: the driver gives each order, qty > 0 and
\* price in [1, P) of hft_engine.cpp, to the bitset-indexed engine and, when
\* that call is over, the same order to the linear-scan engine
NextBoth ==
    \/ \E price \in Ticks \ {0}, qty \in 1 .. MaxQty, is_buy \in BOOLEAN :
          /\ lin_pc = "idle" /\ lin_obs.calls = obs.calls
          /\ ProcessNewOrder(price, qty, is_buy)
    \/ \E price \in Ticks \ {0}, qty \in 1 .. MaxQty, is_buy \in BOOLEAN :
          /\ lin_pc = "idle" /\ lin_obs.calls = obs.calls
          /\ ProcessNewOrderThrows(price, qty, is_buy)
    \/ matchBuyOrder
    \/ matchSellOrder
    \/ RestOrFree
    \/ /\ pc = "idle" /\ lin_obs.calls < obs.calls
       /\ lin_ProcessNewOrder(obs.price, obs.qty, obs.is_buy)
    \/ /\ pc = "idle" /\ lin_obs.calls < obs.calls
       /\ lin_ProcessNewOrderThrows(obs.price, obs.qty, obs.is_buy)
    \/ lin_matchBuyOrder
    \/ lin_matchSellOrder
    \/ lin_RestOrFree

SpecBoth == Init /\ [][NextBoth]_vars

\* a tracker on its own, any sequence of calls on ticks of [0, P)
tracker_Next ==
    \/ \E price \in Ticks : SetPriceLevel(price)
    \/ \E price \in Ticks : ClearPriceLevel(price)

SpecTracker == Init /\ [][tracker_Next]_vars

---------------------------------------------------------------------------
(* Views of an engine, used to state the properties *)

Range(q) == {q[i] : i \in DOMAIN q}

\* the slots met following `next` from h, at most fuel of them
RECURSIVE Walk(_, _, _)
Walk(mem, h, fuel) ==
    IF h = Null \/ fuel = 0 THEN <<>>
    ELSE <<h>> \o Walk(mem, mem[h].next, fuel - 1)

\* the queue of a level, head first
Queue(level, mem) == Walk(mem, level.head, MAX_ORDERS)
BidQueue(e, t) == Queue(e.book_.bids_[t], e.pool_.pool_)
AskQueue(e, t) == Queue(e.book_.asks_[t], e.pool_.pool_)

BidTicks(e) == {t \in DOMAIN e.book_.bids_ : e.book_.bids_[t].head # Null}
AskTicks(e) == {t \in DOMAIN e.book_.asks_ : e.book_.asks_[t].head # Null}
Highest(S) == CHOOSE t \in S : \A u \in S : u <= t
Lowest(S) == CHOOSE t \in S : \A u \in S : t <= u

\* the places (side, tick, position) of the book
Places(e) ==
    {<<"bid", t, i>> : t \in DOMAIN e.book_.bids_, i \in 1 .. MAX_ORDERS}
      \cup {<<"ask", t, i>> : t \in DOMAIN e.book_.asks_, i \in 1 .. MAX_ORDERS}
\* the places where slot s rests
PlacesOf(e, s) ==
    {pl \in Places(e) :
        LET q == IF pl[1] = "bid" THEN BidQueue(e, pl[2]) ELSE AskQueue(e, pl[2])
        IN  pl[3] <= Len(q) /\ q[pl[3]] = s}
RestingSlots(e) == {s \in Slots : PlacesOf(e, s) # {}}
\* s and t rest at the same side and tick
SameLevel(e, s, t) ==
    \E ps \in PlacesOf(e, s), pt \in PlacesOf(e, t) : ps[1] = pt[1] /\ ps[2] = pt[2]

RECURSIVE SumQty(_, _)
SumQty(mem, S) ==
    IF S = {} THEN 0
    ELSE LET s == CHOOSE x \in S : TRUE IN mem[s].qty + SumQty(mem, S \ {s})
\* total quantity resting in the book, both sides
RestingQty(e) == SumQty(e.pool_.pool_, RestingSlots(e))

\* the free stack: free_list_[0 .. free_idx_ - 1]
FreeStack(p) == [i \in 0 .. p.free_idx_ - 1 |-> p.free_list_[i]]
FreeSlots(p) == {p.free_list_[i] : i \in 0 .. p.free_idx_ - 1}

RECURSIVE SumFills(_)
SumFills(f) == IF f = <<>> THEN 0 ELSE Head(f).qty + SumFills(Tail(f))

---------------------------------------------------------------------------
(* C1 *)

\* C1, as stated: after any sequence of completed calls, the total traded
\* quantity equals the total submitted quantity minus the total quantity
\* resting in the book.
C1_ConservationAsStated ==
    pc = "idle" => obs.sumFilled = obs.sumIn - RestingQty(hft)

\* C1, amended: a trade of quantity f takes f from the inbound order and f
\* from the resting order, so twice the total traded quantity equals the
\* total quantity of the accepted orders minus the total resting quantity.
C1_Conservation ==
    pc = "idle" => 2 * obs.sumFilled = obs.sumIn - RestingQty(hft)

C1_Witness ==
    /\ pc = "idle"
    /\ Len(obs.fills) = 2
    /\ RestingQty(hft) > 0

---------------------------------------------------------------------------
(* C2 *)

\* C2: after every completed call the bid side or the ask side is empty, or
\* the highest tick with a resting bid is strictly below the lowest tick with
\* a resting ask.
C2_NoCrossedBook ==
    pc = "idle" =>
        \/ BidTicks(hft) = {}
        \/ AskTicks(hft) = {}
        \/ Highest(BidTicks(hft)) < Lowest(AskTicks(hft))

---------------------------------------------------------------------------
(* C3 *)

\* slot s, resting, receives a fill in this step
Filled(s) ==
    /\ s \in RestingSlots(hft)
    /\ hft'.pool_.pool_[s].qty < hft.pool_.pool_[s].qty

\* C3: an order receives a fill only when no order that came to rest earlier
\* at the same side and tick is still in the book; so the orders of a level
\* are filled in the order in which they came to rest.
C3_TimePriority ==
    [][\A s \in Slots :
          Filled(s) =>
              \A t \in RestingSlots(hft) \ {s} :
                  SameLevel(hft, s, t) => obs.rested[s] < obs.rested[t]]_vars

\* a fill of the head of a level behind which another order waits
C3_Witness ==
    /\ obs.fills # <<>>
    /\ LET f == obs.fills[Len(obs.fills)]
       IN  Len(IF obs.is_buy THEN AskQueue(obs.pre, f.price)
                             ELSE BidQueue(obs.pre, f.price)) >= 2

---------------------------------------------------------------------------
(* C4 *)

TrackerBit(t, price) ==
    TestBit(t.data_words_[price \div WORD_BITS], price % WORD_BITS)

\* C4: for each side and tick the tracker bit is set iff the level's queue is
\* not empty, after every call and at every evaluation of the matching loop;
\* and the level the loop selects has a head.
C4_IndexConsistency ==
    /\ \A t \in Ticks :
          /\ TrackerBit(hft.book_.bid_tracker_, t) <=> ~isEmpty(hft.book_.bids_[t])
          /\ TrackerBit(hft.book_.ask_tracker_, t) <=> ~isEmpty(hft.book_.asks_[t])
    /\ pc = "match" =>
          LET o == hft.pool_.pool_[inbound]
              best_ask == getBestAsk(hft.book_.ask_tracker_)
              best_bid == getBestBid(hft.book_.bid_tracker_)
          IN  /\ (o.is_buy /\ o.qty > 0 /\ ~buyBreaks(best_ask, o.price))
                    => hft.book_.asks_[best_ask].head # Null
              /\ (~o.is_buy /\ o.qty > 0 /\ ~sellBreaks(best_bid, o.price))
                    => hft.book_.bids_[best_bid].head # Null

\* the loop has emptied a level in this call and is about to trade at the next
C4_Witness ==
    /\ pc = "match"
    /\ obs.fills # <<>>
    /\ hft.pool_.pool_[inbound].qty > 0
    /\ hft.pool_.pool_[inbound].is_buy
    /\ ~buyBreaks(getBestAsk(hft.book_.ask_tracker_), obs.price)
    /\ AskTicks(hft) # AskTicks(obs.pre)

---------------------------------------------------------------------------
(* C5 *)

\* C5: every slot is in exactly one of: the free stack (once), one place of
\* one price-level queue, the inbound order of the call in progress; and
\* after a completed call the slots that are not free are the resting orders.
C5_ArenaIntegrity ==
    /\ \A i, j \in DOMAIN FreeStack(hft.pool_) :
          i # j => FreeStack(hft.pool_)[i] # FreeStack(hft.pool_)[j]
    /\ \A s \in Slots :
          \/ s \in FreeSlots(hft.pool_) /\ PlacesOf(hft, s) = {} /\ s # inbound
          \/ s \notin FreeSlots(hft.pool_) /\ Cardinality(PlacesOf(hft, s)) = 1
                /\ s # inbound
          \/ s \notin FreeSlots(hft.pool_) /\ PlacesOf(hft, s) = {} /\ s = inbound
    /\ pc = "idle" =>
          /\ inbound = Null
          /\ MAX_ORDERS - hft.pool_.free_idx_ = Cardinality(RestingSlots(hft))

\* a slot freed by a trade has been allocated again and rests
C5_Witness ==
    /\ pc = "idle"
    /\ hft.trades_executed_ > 0
    /\ Cardinality(RestingSlots(hft)) = 2
    /\ hft.pool_.free_list_ # OrderPool.free_list_

---------------------------------------------------------------------------
(* C6 *)

\* C6: a call made while the free stack is empty fails with the exhaustion
\* error and changes nothing: no trade, and the queues, the resting
\* quantities, the price index, the free stack and the trade counter are as
\* before the call.
C6_ExhaustionRejects ==
    [][(pc = "idle" /\ hft.pool_.free_idx_ = 0) =>
          /\ hft' = hft
          /\ pc' = "idle"
          /\ inbound' = Null
          /\ obs'.result = "exhausted"
          /\ obs'.fills = <<>>]_vars

\* a rejected buy order whose price crosses a resting ask
C6_Witness ==
    /\ obs.result = "exhausted"
    /\ obs.is_buy
    /\ \E t \in AskTicks(hft) : t <= obs.price
    /\ hft = obs.pre

---------------------------------------------------------------------------
(* C7 *)

InvalidOrder(price, qty) == qty = 0 \/ price \notin Ticks

\* what C7 and the frame properties compare: the queues with the resting
\* quantities, the price index, the free stack and the trade counter
EngineView(e) ==
    [bids    |-> [t \in DOMAIN e.book_.bids_ |->
                    [i \in DOMAIN BidQueue(e, t) |->
                        <<BidQueue(e, t)[i], e.pool_.pool_[BidQueue(e, t)[i]].qty>>]],
     asks    |-> [t \in DOMAIN e.book_.asks_ |->
                    [i \in DOMAIN AskQueue(e, t) |->
                        <<AskQueue(e, t)[i], e.pool_.pool_[AskQueue(e, t)[i]].qty>>]],
     index   |-> <<e.book_.bid_tracker_, e.book_.ask_tracker_>>,
     free    |-> FreeStack(e.pool_),
     counter |-> e.trades_executed_]

\* C7: a call with qty = 0 or a price outside [0, P) executes no trade and
\* leaves the queues, the price index, the free stack and the trade counter as
\* they were.  (Stated of the calls that return; a call that goes on to index
\* a book array out of range is RestOutOfRange.)
C7_InvalidOrderRejected ==
    (obs.result = "done" /\ InvalidOrder(obs.price, obs.qty)) =>
        /\ obs.fills = <<>>
        /\ EngineView(hft) = EngineView(obs.pre)

---------------------------------------------------------------------------
(* C8 *)

\* a fill of a resting ask happens at the lowest tick with a resting ask, and
\* not above the inbound's limit
BuyStep ==
    \A s \in Slots :
        (Filled(s) /\ PlacesOf(hft, s) \subseteq {pl \in Places(hft) : pl[1] = "ask"}) =>
            /\ hft.pool_.pool_[inbound].is_buy
            /\ hft.pool_.pool_[s].price = Lowest(AskTicks(hft))
            /\ hft.pool_.pool_[s].price <= obs.price

\* when a buy call has returned: its fills are in ascending tick order, and
\* either it was filled entirely and its slot is free again, or no ask rests
\* at a tick <= its limit and its residual is the tail of the bid queue at
\* its limit
BuyReturn ==
    (pc = "idle" /\ obs.result = "done" /\ obs.is_buy) =>
        /\ \A i, j \in DOMAIN obs.fills :
              i < j => obs.fills[i].price <= obs.fills[j].price
        /\ \/ /\ SumFills(obs.fills) = obs.qty
              /\ obs.slot \in FreeSlots(hft.pool_)
           \/ /\ SumFills(obs.fills) < obs.qty
              /\ \A t \in AskTicks(hft) : t > obs.price
              /\ hft.book_.bids_[obs.price].tail = obs.slot
              /\ hft.pool_.pool_[obs.slot].qty = obs.qty - SumFills(obs.fills)

\* C8: a buy at a valid price p trades against the ask levels in ascending
\* tick order, never at a tick while a lower ask tick is non-empty and never
\* above p; on return it is fully filled and freed, or no ask rests at a tick
\* <= p and its residual is the tail of the bid queue at p.
C8_BuySweep == [][BuyStep /\ BuyReturn']_vars

\* a buy that swept two ask levels
C8_Witness ==
    /\ pc = "idle" /\ obs.result = "done" /\ obs.is_buy
    /\ Len(obs.fills) = 2
    /\ obs.fills[1].price < obs.fills[2].price

---------------------------------------------------------------------------
(* C9 *)

\* a fill of a resting bid happens at the highest tick with a resting bid,
\* and not below the inbound's limit
SellStep ==
    \A s \in Slots :
        (Filled(s) /\ PlacesOf(hft, s) \subseteq {pl \in Places(hft) : pl[1] = "bid"}) =>
            /\ ~hft.pool_.pool_[inbound].is_buy
            /\ hft.pool_.pool_[s].price = Highest(BidTicks(hft))
            /\ hft.pool_.pool_[s].price >= obs.price

SellReturn ==
    (pc = "idle" /\ obs.result = "done" /\ ~obs.is_buy) =>
        /\ \A i, j \in DOMAIN obs.fills :
              i < j => obs.fills[i].price >= obs.fills[j].price
        /\ \/ /\ SumFills(obs.fills) = obs.qty
              /\ obs.slot \in FreeSlots(hft.pool_)
           \/ /\ SumFills(obs.fills) < obs.qty
              /\ \A t \in BidTicks(hft) : t < obs.price
              /\ hft.book_.asks_[obs.price].tail = obs.slot
              /\ hft.pool_.pool_[obs.slot].qty = obs.qty - SumFills(obs.fills)

\* C9: a sell at a valid price p trades against every bid level b >= p in
\* descending tick order; on return it is fully filled, or no bid rests at a
\* tick >= p and its residual is the tail of the ask queue at p.
C9_SellSweep == [][SellStep /\ SellReturn']_vars

---------------------------------------------------------------------------
(* C10 *)

\* The matching loops of the linear-scan engine are deterministic and read
\* only the engine, so an iteration entered with the loop condition true that
\* leaves the engine as it found it is followed by the same iteration, for
\* ever.
\* C10: every call of the linear-scan engine with a valid order runs to
\* completion: no iteration of matchBuyOrder or matchSellOrder, the
\* rescan-and-continue branch included, is entered with the engine in a state
\* it leaves unchanged.
C10_LinearLoopsExit ==
    lin_pc = "match" =>
        /\ (lin.pool_.pool_[lin_inbound].is_buy /\ lin_buyContinues(lin, lin_inbound))
              => lin_buyIteration(lin, lin_inbound) # lin
        /\ (~lin.pool_.pool_[lin_inbound].is_buy /\ lin_sellContinues(lin, lin_inbound))
              => lin_sellIteration(lin, lin_inbound) # lin

---------------------------------------------------------------------------
(* C11 *)

\* the slots resting on the bid side, on the ask side
BidSlots(e) == UNION {Range(BidQueue(e, t)) : t \in DOMAIN e.book_.bids_}
AskSlots(e) == UNION {Range(AskQueue(e, t)) : t \in DOMAIN e.book_.asks_}
\* the resting orders an inbound of the given side can trade with
OppositeSlots(e, is_buy) == IF is_buy THEN AskSlots(e) ELSE BidSlots(e)

\* an iteration of a matching loop that did not break: it filled the inbound
\* or took one resting order out of the opposite side
LoopIteration ==
    (pc = "match" /\ pc' = "match") =>
        LET is_buy == hft.pool_.pool_[inbound].is_buy
        IN  \/ hft'.pool_.pool_[inbound].qty = 0
            \/ /\ OppositeSlots(hft', is_buy) \subseteq OppositeSlots(hft, is_buy)
               /\ Cardinality(OppositeSlots(hft', is_buy))
                     = Cardinality(OppositeSlots(hft, is_buy)) - 1

\* the iterations that did not break are at most the opposite orders that
\* rested when the call was made; the iteration that breaks is the `+ 1`
LoopBound ==
    pc \in {"match", "rest"} =>
        obs.iters <= Cardinality(OppositeSlots(obs.pre, obs.is_buy))

\* C11: a call with a valid order runs to completion: every iteration of
\* matchBuyOrder / matchSellOrder that does not break brings the inbound's
\* quantity to zero or removes one resting order from the opposite side, so
\* the loop runs at most (resting opposite orders + 1) iterations.
C11_Termination == [][LoopIteration /\ LoopBound']_vars

\* a call whose loop traded with every opposite order, two of them
C11_Witness ==
    /\ pc = "rest"
    /\ obs.iters = 2
    /\ Cardinality(OppositeSlots(obs.pre, obs.is_buy)) = 2
    /\ OppositeSlots(hft, obs.is_buy) = {}

---------------------------------------------------------------------------
(* C12 *)

\* the ticks an index reports as active: the bits set in its data words
ActiveTicks(t) == {price \in Ticks : TrackerBit(t, price)}

\* C12: the value getBestBid returns for an index with no active tick differs
\* from the value it returns for every non-empty set of active ticks (the set
\* {0} in particular), and getBestAsk returns P exactly when no tick is
\* active.
C12_Sentinels ==
    /\ ActiveTicks(tracker) # {} =>
          getBestBid(tracker) # getBestBid(FastPriceTracker)
    /\ getBestAsk(tracker) = MAX_PRICE_TICKS <=> ActiveTicks(tracker) = {}

---------------------------------------------------------------------------
(* C13 *)

Sides == {"bid", "ask"}
\* the queues of the book, by side and tick
BookQueues(e) ==
    [sd \in Sides |->
        IF sd = "bid" THEN [t \in DOMAIN e.book_.bids_ |-> BidQueue(e, t)]
        ELSE [t \in DOMAIN e.book_.asks_ |-> AskQueue(e, t)]]
\* the levels (side, tick) of queues Q that hold slot s
LevelsOf(Q, s) ==
    {lv \in Sides \X Ticks : s \in Range(Q[lv[1]][lv[2]])}
\* a is ahead of b in one of the queues Q
Ahead(Q, a, b) ==
    \E lv \in Sides \X Ticks :
        LET q == Q[lv[1]][lv[2]]
        IN  \E i, j \in DOMAIN q : i < j /\ q[i] = a /\ q[j] = b
\* s is the head of a level of the side opposite to the inbound's, at a tick
\* the inbound's limit reaches
CrossedHead(e, inb, s) ==
    LET i == e.pool_.pool_[inb]
        o == e.pool_.pool_[s]
    IN  IF i.is_buy
        THEN ~o.is_buy /\ e.book_.asks_[o.price].head = s /\ o.price <= i.price
        ELSE o.is_buy /\ e.book_.bids_[o.price].head = s /\ o.price >= i.price

\* what a step of a call does to the orders that rest when it is taken
FrameStep ==
    LET Q  == BookQueues(hft)
        Q2 == BookQueues(hft')
        resting  == BidSlots(hft) \cup AskSlots(hft)
        resting2 == BidSlots(hft') \cup AskSlots(hft')
    IN  /\ \A s \in resting :
              LET o  == hft.pool_.pool_[s]
                  o2 == hft'.pool_.pool_[s]
              IN  /\ (o2.qty # o.qty \/ LevelsOf(Q2, s) # LevelsOf(Q, s)) =>
                        /\ pc = "match"
                        /\ CrossedHead(hft, inbound, s)
                        /\ o2.qty < o.qty
                  /\ o2.qty > 0 =>
                        /\ LevelsOf(Q2, s) = LevelsOf(Q, s)
                        /\ o2.id = o.id /\ o2.price = o.price /\ o2.is_buy = o.is_buy
                  /\ (o2.qty > 0 /\ o2.qty < o.qty) =>
                        \E lv \in LevelsOf(Q2, s) : Head(Q2[lv[1]][lv[2]]) = s
        /\ \A a, b \in resting \cap resting2 : Ahead(Q, a, b) <=> Ahead(Q2, a, b)

\* C13: a call changes the quantity or the queue membership of a resting
\* order only when the order is the head of an opposite-side level the
\* inbound crosses; every other resting order keeps its slot, id, tick,
\* quantity and its place relative to the others of its level, and a resting
\* order that is partially filled stays the head of its level with the
\* reduced quantity.
C13_HandleStability == [][FrameStep]_vars

\* a call partially filled the head of a level that holds a second order
C13_Witness ==
    /\ pc = "idle" /\ obs.result = "done"
    /\ Len(obs.fills) = 1
    /\ LET s == obs.fills[1].slot
       IN  /\ hft.pool_.pool_[s].qty > 0
           /\ hft.pool_.pool_[s].qty < obs.pre.pool_.pool_[s].qty
           /\ \E b \in Slots : Ahead(BookQueues(hft), s, b)

---------------------------------------------------------------------------
(* C14 *)

\* C14: for every tick of [0, P) and every state of the index, setPriceLevel
\* applied twice gives the data words and summary word of applying it once,
\* clearPriceLevel applied twice gives the state of applying it once, and
\* clearPriceLevel of an inactive tick changes nothing; so a call that
\* repeats what the index already holds leaves it as it found it.
C14_Idempotence ==
    /\ \A price \in Ticks :
          /\ setPriceLevel(setPriceLevel(tracker, price), price)
                = setPriceLevel(tracker, price)
          /\ clearPriceLevel(clearPriceLevel(tracker, price), price)
                = clearPriceLevel(tracker, price)
          /\ ~TrackerBit(tracker, price) => clearPriceLevel(tracker, price) = tracker
    /\ (tracker_obs.op = "set" /\ TrackerBit(tracker_obs.pre, tracker_obs.price))
          => tracker = tracker_obs.pre
    /\ (tracker_obs.op = "clear" /\ ~TrackerBit(tracker_obs.pre, tracker_obs.price))
          => tracker = tracker_obs.pre

\* setPriceLevel was called for a tick that was active, in a word that holds
\* another active tick
C14_Witness ==
    /\ tracker_obs.op = "set"
    /\ TrackerBit(tracker_obs.pre, tracker_obs.price)
    /\ \E price \in Ticks :
          /\ price # tracker_obs.price
          /\ price \div WORD_BITS = tracker_obs.price \div WORD_BITS
          /\ TrackerBit(tracker_obs.pre, price)

---------------------------------------------------------------------------
(* C15 *)

\* an order of the given side and limit finds an opposite order within its
\* limit in book e
Crosses(e, price, is_buy) ==
    IF is_buy THEN \E t \in AskTicks(e) : t <= price
    ELSE \E t \in BidTicks(e) : t >= price

\* C15: a call advances the trade counter by the number of fills it executed;
\* every fill has a positive quantity, every resting order has a positive
\* quantity and no quantity goes below zero; a call for an order that does not
\* cross leaves the counter and the opposite side as they were.
C15_TradeCounter ==
    /\ obs.result \in {"running", "done"} =>
          hft.trades_executed_ = obs.pre.trades_executed_ + Len(obs.fills)
    /\ \A i \in DOMAIN obs.fills : obs.fills[i].qty > 0
    /\ \A s \in Slots : hft.pool_.pool_[s].qty >= 0
    /\ \A s \in BidSlots(hft) \cup AskSlots(hft) : hft.pool_.pool_[s].qty > 0
    /\ (pc = "idle" /\ obs.result = "done"
          /\ ~Crosses(obs.pre, obs.price, obs.is_buy)) =>
          /\ hft.trades_executed_ = obs.pre.trades_executed_
          /\ IF obs.is_buy
             THEN EngineView(hft).asks = EngineView(obs.pre).asks
             ELSE EngineView(hft).bids = EngineView(obs.pre).bids

\* a call that executed two fills after earlier calls had traded
C15_Witness ==
    /\ pc = "idle" /\ obs.result = "done"
    /\ Len(obs.fills) = 2
    /\ obs.pre.trades_executed_ > 0
    /\ hft.trades_executed_ = obs.pre.trades_executed_ + 2

---------------------------------------------------------------------------
(* C16 *)

\* a level's list over the records mem; stamps[s] is the number of the call
\* that put slot s in the book
WellFormed(level, mem, stamps) ==
    /\ level.head = Null <=> level.tail = Null
    /\ level.head # Null =>
          LET q == Queue(level, mem)
          IN  /\ mem[level.head].prev = Null
              /\ mem[level.tail].next = Null
              /\ q[Len(q)] = level.tail
              /\ \A i, j \in DOMAIN q : i # j => q[i] # q[j]
              /\ \A i \in DOMAIN q : i > 1 => mem[q[i]].prev = q[i - 1]
              /\ \A i, j \in DOMAIN q : i < j => stamps[q[i]] < stamps[q[j]]

\* C16: in both engines, after any sequence of push_back / pop_front made by
\* the engine, every level has head null iff tail null, and when it is not
\* empty head.prev and tail.next are null, following next from head reaches
\* tail through each member once, prev is the inverse of next, and the list
\* is in insertion order.
C16_QueueWellFormed ==
    /\ \A t \in Ticks :
          /\ WellFormed(hft.book_.bids_[t], hft.pool_.pool_, obs.rested)
          /\ WellFormed(hft.book_.asks_[t], hft.pool_.pool_, obs.rested)
    /\ \A t \in lin_Ticks :
          /\ WellFormed(lin.book_.bids_[t], lin.pool_.pool_, lin_obs.rested)
          /\ WellFormed(lin.book_.asks_[t], lin.pool_.pool_, lin_obs.rested)

\* a level of the bitset-indexed engine holds the orders of the second and
\* the fourth call, in that order, after the first call's order was popped
C16_Witness ==
    /\ pc = "idle"
    /\ hft.trades_executed_ > 0
    /\ Cardinality(BidSlots(hft) \cup AskSlots(hft)) = 2
    /\ \E lv \in Sides \X Ticks :
          LET q == BookQueues(hft)[lv[1]][lv[2]]
          IN  /\ Len(q) = 2
              /\ obs.rested[q[1]] = 2
              /\ obs.rested[q[2]] = 4

---------------------------------------------------------------------------
(* C17 *)

\* C17: after any sequence of setPriceLevel / clearPriceLevel calls on ticks
\* of [0, P), bit w of the summary word is set iff data word w is not zero,
\* and bit b of data word w is set iff tick w * WORD_BITS + b was set more
\* recently than it was cleared.
C17_SummaryInvariant ==
    /\ \A w \in Words :
          TestBit(tracker.summary_word_, w) <=> tracker.data_words_[w] # 0
    /\ \A w \in Words, b \in Words :
          TestBit(tracker.data_words_[w], b)
              <=> (w * WORD_BITS + b) \in tracker_obs.active

\* a clearPriceLevel emptied a data word while another word holds a tick
C17_Witness ==
    /\ tracker_obs.op = "clear"
    /\ TrackerBit(tracker_obs.pre, tracker_obs.price)
    /\ tracker.data_words_[tracker_obs.price \div WORD_BITS] = 0
    /\ tracker.summary_word_ # 0

---------------------------------------------------------------------------
(* C18 *)

\* C18: after any sequence of setPriceLevel / clearPriceLevel calls that
\* leaves a tick active, getBestAsk returns the lowest and getBestBid the
\* highest of the ticks set more recently than cleared.
C18_BestPrice ==
    tracker_obs.active # {} =>
        /\ getBestAsk(tracker) = Lowest(tracker_obs.active)
        /\ getBestBid(tracker) = Highest(tracker_obs.active)

\* after a clearPriceLevel three ticks are active: both words hold a tick and
\* one of them holds two
C18_Witness ==
    /\ tracker_obs.op = "clear"
    /\ TrackerBit(tracker_obs.pre, tracker_obs.price)
    /\ Cardinality(tracker_obs.active) = 3
    /\ getBestAsk(tracker) < getBestBid(tracker)

---------------------------------------------------------------------------
(* C19 *)

\* C19: after every completed call of the linear-scan engine, best_ask_ is
\* the lowest tick with a non-empty ask queue (MAX_PRICE_TICKS if there is
\* none) and best_bid_ is the highest tick with a non-empty bid queue (0 if
\* there is none).
C19_CachedTopOfBook ==
    lin_pc = "idle" =>
        /\ lin.book_.best_ask_ =
              IF AskTicks(lin) = {} THEN lin_MAX_PRICE_TICKS
              ELSE Lowest(AskTicks(lin))
        /\ lin.book_.best_bid_ =
              IF BidTicks(lin) = {} THEN 0
              ELSE Highest(BidTicks(lin))

\* a completed sell emptied the best bid level and a lower bid level is now
\* the best
C19_Witness ==
    /\ lin_pc = "idle" /\ lin_obs.result = "done" /\ ~lin_obs.is_buy
    /\ lin_obs.fills # <<>>
    /\ lin.book_.best_bid_ > 0
    /\ lin.book_.best_bid_ < lin_obs.pre.book_.best_bid_
    /\ lin.book_.bids_[lin.book_.best_bid_].head # Null

---------------------------------------------------------------------------
(* C20 *)

\* a queue as the orders it holds: id and remaining quantity, head first
Resting(q, mem) == [i \in DOMAIN q |-> <<mem[q[i]].id, mem[q[i]].qty>>]

\* both engines have been given the same calls and have returned from them
BothReturned == pc = "idle" /\ lin_pc = "idle" /\ lin_obs.calls = obs.calls

\* C20: run side by side from empty books on the same orders, qty > 0 and
\* price in [1, P), the two engines execute the same fills (same resting
\* order, same quantity) in the same order, report the same trade count, and
\* end every call with the same bid and ask queue at every tick.
C20_EnginesAgree ==
    BothReturned =>
        /\ lin_obs.result = obs.result
        /\ lin_obs.fills = obs.fills
        /\ lin.trades_executed_ = hft.trades_executed_
        /\ \A t \in Ticks :
              /\ Resting(BidQueue(lin, t), lin.pool_.pool_)
                    = Resting(BidQueue(hft, t), hft.pool_.pool_)
              /\ Resting(AskQueue(lin, t), lin.pool_.pool_)
                    = Resting(AskQueue(hft, t), hft.pool_.pool_)
        /\ \A t \in lin_Ticks \ Ticks :
              BidQueue(lin, t) = <<>> /\ AskQueue(lin, t) = <<>>

\* both engines returned from a sell that swept two bid levels, after an
\* earlier call had traded
C20_Witness ==
    /\ BothReturned
    /\ obs.result = "done" /\ ~obs.is_buy
    /\ Len(obs.fills) = 2 /\ Len(lin_obs.fills) = 2
    /\ obs.fills[1].price > obs.fills[2].price
    /\ hft.trades_executed_ > 2

====
